---- MODULE Spec2Model ----
(***************************************************************************)
(* Security-descriptor decoding of winstructs: SecurityDescriptor, Acl,    *)
(* Ace, Sid, Authority and Guid decoders over a byte stream, translated    *)
(* from src/src/security/*.rs, src/src/guid.rs and src/src/err.rs.         *)
(*                                                                         *)
(* A reader is a pair (s, p): the bytes s of the stream and the number p   *)
(* of bytes already consumed.  Every decoder returns an outcome record:    *)
(*   [tag |-> "Ok", val |-> v, pos |-> p']   Ok(v), reader left at p'      *)
(*   [tag |-> "Err", error |-> e]            Err(e), an error value        *)
(*   [tag |-> "Panic", msg |-> m]            the thread panicked           *)
(***************************************************************************)
EXTENDS Integers, Sequences, FiniteSets, TLC

(***************************************************************************)
(* Bounds of the explored inputs.                                          *)
(***************************************************************************)
\* The descriptor is embedded after 0..MaxBase bytes of other data.
MaxBase == 1
\* Generated ACLs declare 0..MaxAces entries.
MaxAces == 2

(***************************************************************************)
(* Outcomes and errors (src/src/err.rs).                                   *)
(***************************************************************************)
Ok(v, p) == [tag |-> "Ok", val |-> v, pos |-> p]

IoError == [kind |-> "IoError"]

UnknownAceType(b) == [kind |-> "UnknownAceType", ace_type |-> b]

Err(e) == [tag |-> "Err", error |-> e]

Panic(m) == [tag |-> "Panic", msg |-> m]

IsOk(r) == r.tag = "Ok"

\* The `?` operator: a failed outcome r is returned as it is, a successful one
\* is handed to the rest of the function.
Try(r, Rest(_)) == IF IsOk(r) THEN Rest(r) ELSE r

(***************************************************************************)
(* Fixed-width integers.  u8 and u16 values are numbers.  A u32 or u64     *)
(* value is the tuple of its 16-bit limbs, most significant first (two     *)
(* limbs for u32, four for u64), so that every value of the type has a     *)
(* representation.                                                         *)
(***************************************************************************)
RECURSIVE BitAnd(_, _)
BitAnd(a, b) ==
    IF a = 0 \/ b = 0 THEN 0
    ELSE (a % 2) * (b % 2) + 2 * BitAnd(a \div 2, b \div 2)

RECURSIVE BitXor(_, _)
BitXor(a, b) ==
    IF a = 0 THEN b
    ELSE IF b = 0 THEN a
    ELSE ((a + b) % 2) + 2 * BitXor(a \div 2, b \div 2)

\* The bitwise AND of two values of the same width.
Wide_and(a, b) == [i \in DOMAIN a |-> BitAnd(a[i], b[i])]

\* The u32 of a number below 2^16.
u32_of(n) == <<0, n>>

\* u64::from(x) of a u16.
u64_from_u16(x) == <<0, 0, 0, x>>

\* x as u64, of a u32.
u64_from_u32(x) == <<0, 0, x[1], x[2]>>

\* x as u16, of a u32: the low 16 bits.
u16_from_u32(x) == x[2]

\* a + b in u64 (the sum of the inputs explored never reaches 2^64).
u64_add(a, b) ==
    LET s4 == a[4] + b[4]
        s3 == a[3] + b[3] + (s4 \div 65536)
        s2 == a[2] + b[2] + (s3 \div 65536)
        s1 == a[1] + b[1] + (s2 \div 65536)
    IN <<s1 % 65536, s2 % 65536, s3 % 65536, s4 % 65536>>

IsZero(w) == \A i \in DOMAIN w : w[i] = 0

\* w > 0, of an unsigned value.
GreaterThanZero(w) == \E i \in DOMAIN w : w[i] > 0

\* The cursor position (a u64) of index i into the stream.
Position(i) == <<0, 0, 0, i>>

\* The index into the stream of cursor position p (a u64).  The streams
\* explored are shorter than 2^16 bytes: a position with a nonzero upper limb
\* lies beyond their end, as position 2^16 does.
CursorIndex(p) == IF p[1] = 0 /\ p[2] = 0 /\ p[3] = 0 THEN p[4] ELSE 65536

(***************************************************************************)
(* Reader primitives: std::io::Read::read_exact and byteorder's            *)
(* ReadBytesExt on a cursor.  A short read is an UnexpectedEof I/O error.  *)
(***************************************************************************)
\* A faulty variant of read_exact: the bytes the stream lacks are left zero
\* in the buffer and the read succeeds.
read_exact_zero_filled(s, p, n) ==
    Ok([i \in 1..n |-> IF p + i <= Len(s) THEN s[p + i] ELSE 0], p + n)

read_exact(s, p, n) ==
    IF p + n <= Len(s) THEN Ok(SubSeq(s, p + 1, p + n), p + n)
    ELSE Err(IoError)

read_u8(s, p) ==
    IF p + 1 <= Len(s) THEN Ok(s[p + 1], p + 1) ELSE Err(IoError)

read_u16_le(s, p) ==
    IF p + 2 <= Len(s) THEN Ok(s[p + 1] + 256 * s[p + 2], p + 2)
    ELSE Err(IoError)

read_u16_be(s, p) ==
    IF p + 2 <= Len(s) THEN Ok(256 * s[p + 1] + s[p + 2], p + 2)
    ELSE Err(IoError)

read_u32_le(s, p) ==
    IF p + 4 <= Len(s)
    THEN Ok(<<s[p + 3] + 256 * s[p + 4], s[p + 1] + 256 * s[p + 2]>>, p + 4)
    ELSE Err(IoError)

read_u32_be(s, p) ==
    IF p + 4 <= Len(s)
    THEN Ok(<<256 * s[p + 1] + s[p + 2], 256 * s[p + 3] + s[p + 4]>>, p + 4)
    ELSE Err(IoError)

(***************************************************************************)
(* State.                                                                  *)
(***************************************************************************)
VARIABLES
    overflow_checks, \* the build profile: TRUE when integer overflow panics
                     \* (debug), FALSE when it wraps (release)
    stream,          \* the bytes of the caller's stream
    pos,             \* the stream position
    op,              \* the entry point the caller invoked
    pc,              \* the position inside that entry point
    start,           \* the stream position when the entry point was invoked
    base,            \* SecurityDescriptor::new: _offset
    header,          \* SecurityDescriptor::new: header, <<>> until decoded
    owner_sid,       \* SecurityDescriptor::new: owner_sid, <<>> until decoded
    group_sid,       \* SecurityDescriptor::new: group_sid, <<>> until decoded
    dacl,            \* SecurityDescriptor::new: dacl (<<>> is None)
    sacl,            \* SecurityDescriptor::new: sacl (<<>> is None)
    seeks,           \* the seeks performed so far, in order
    result,          \* the outcome returned to the caller, <<>> until then
    NESTED_REFERENCE,  \* reference.rs: pub static mut NESTED_REFERENCE
    U64_SERIALIZATION, \* serialize.rs: pub static mut U64_SERIALIZATION
    previous         \* the caller's copy of the outcome of its first call
                     \* on this stream, <<>> until it has one

vars == <<overflow_checks, stream, pos, op, pc, start, base, header, owner_sid,
          group_sid, dacl, sacl, seeks, result, NESTED_REFERENCE,
          U64_SERIALIZATION, previous>>

\* What a decoder leaves alone: the process-wide switches and the caller's
\* copy.
outside == <<NESTED_REFERENCE, U64_SERIALIZATION, previous>>

(***************************************************************************)
(* Authority, SubAuthority, SubAuthorityList                               *)
(* (src/src/security/authority.rs).                                        *)
(***************************************************************************)
\* A faulty variant of Authority_from_reader: the six bytes fill the high
\* end of the u64.
Authority_from_reader_high_end(s, p) ==
    Try(read_u32_be(s, p), LAMBDA id_high :
    Try(read_u16_be(s, id_high.pos), LAMBDA id_low :
    Ok(<<id_high.val[1], id_high.val[2], id_low.val, 0>>, id_low.pos)))

\* Authority::from_reader: a big-endian u32, then a big-endian u16; the value
\* is u64::from((id_high as u16) ^ id_low).
Authority_from_reader(s, p) ==
    Try(read_u32_be(s, p), LAMBDA id_high :
    Try(read_u16_be(s, id_high.pos), LAMBDA id_low :
    Ok(u64_from_u16(BitXor(u16_from_u32(id_high.val), id_low.val)),
       id_low.pos)))

\* Authority::from_buffer: from_reader on a cursor over the buffer.
Authority_from_buffer(buffer) == Authority_from_reader(buffer, 0)

\* Authority::new of src/src/security.rs: BigEndian::read_u64 of two zero
\* bytes followed by buffer[0..6].
Authority_new(buffer) ==
    Ok(<<0, 256 * buffer[1] + buffer[2], 256 * buffer[3] + buffer[4],
         256 * buffer[5] + buffer[6]>>, 0)

\* A faulty variant of SubAuthority_from_reader: the four bytes read as a
\* big-endian u32.
SubAuthority_from_reader_big_endian(s, p) == read_u32_be(s, p)

\* SubAuthority::from_reader: one little-endian u32.
SubAuthority_from_reader(s, p) == read_u32_le(s, p)

\* SubAuthorityList::from_reader: `count` sub-authorities, pushed in stream
\* order; the first failing read ends the loop with its error.
RECURSIVE SubAuthorityList_loop(_, _, _, _)
SubAuthorityList_loop(s, p, remaining, list) ==
    IF remaining = 0 THEN Ok(list, p)
    ELSE Try(SubAuthority_from_reader(s, p), LAMBDA sa :
         SubAuthorityList_loop(s, sa.pos, remaining - 1, Append(list, sa.val)))

SubAuthorityList_from_reader(s, p, count) ==
    SubAuthorityList_loop(s, p, count, <<>>)

SubAuthorityList_from_buffer(buffer, count) ==
    SubAuthorityList_from_reader(buffer, 0, count)

(***************************************************************************)
(* Sid (src/src/security/sid.rs).                                          *)
(***************************************************************************)
\* (sub_authority_count * 4) as usize: the product is computed in u8.  With
\* overflow checks it panics when it exceeds 255, without them it wraps.
SubAuthorityBytes(count) ==
    IF count * 4 > 255 /\ overflow_checks
    THEN Panic("attempt to multiply with overflow")
    ELSE Ok((count * 4) % 256, 0)

\* Sid::new
Sid_new(s, p) ==
    Try(read_u8(s, p), LAMBDA revision_number :
    Try(read_u8(s, revision_number.pos), LAMBDA sub_authority_count :
    Try(read_exact(s, sub_authority_count.pos, 6), LAMBDA buf_a :
    Try(Authority_from_buffer(buf_a.val), LAMBDA authority :
    Try(SubAuthorityBytes(sub_authority_count.val), LAMBDA len_sa :
    Try(read_exact(s, buf_a.pos, len_sa.val), LAMBDA buf_sa :
    Try(SubAuthorityList_from_buffer(buf_sa.val, sub_authority_count.val),
        LAMBDA sub_authorities :
    Ok([revision_number |-> revision_number.val,
        sub_authority_count |-> sub_authority_count.val,
        authority |-> authority.val,
        sub_authorities |-> sub_authorities.val],
       buf_sa.pos))))))))

(***************************************************************************)
(* String rendering.  A string is a sequence of one-character strings.     *)
(***************************************************************************)
Digit(d) == <<"0", "1", "2", "3", "4", "5", "6", "7", "8", "9">>[d + 1]

\* w divided by 10, limb by limb from the most significant: the quotient
\* (of the width of w) and the remainder.
RECURSIVE DivMod10(_, _, _)
DivMod10(w, i, acc) ==
    IF i > Len(w) THEN acc
    ELSE LET cur == acc.r * 65536 + w[i] IN
         DivMod10(w, i + 1, [q |-> Append(acc.q, cur \div 10), r |-> cur % 10])

\* "{}" of an unsigned integer: its decimal digits, no padding.
RECURSIVE Decimal(_)
Decimal(w) ==
    LET d == DivMod10(w, 1, [q |-> <<>>, r |-> 0]) IN
    IF IsZero(d.q) THEN <<Digit(d.r)>>
    ELSE Decimal(d.q) \o <<Digit(d.r)>>

\* impl Display for SubAuthorityList: "-{}" for each element, in order.
RECURSIVE SubAuthorityList_fmt(_)
SubAuthorityList_fmt(list) ==
    IF list = <<>> THEN <<>>
    ELSE <<"-">> \o Decimal(Head(list)) \o SubAuthorityList_fmt(Tail(list))

\* Sid::to_string: format!("S-{}-{}-{}", revision_number, authority,
\* sub_authorities.to_string())
Sid_to_string(sid) ==
    <<"S", "-">> \o Decimal(<<sid.revision_number>>)
    \o <<"-">> \o Decimal(sid.authority)
    \o <<"-">> \o SubAuthorityList_fmt(sid.sub_authorities)

(***************************************************************************)
(* Guid (src/src/guid.rs).                                                 *)
(***************************************************************************)
\* Guid::from_reader: u32, u16, u16 little-endian, then 8 bytes.
Guid_from_reader(s, p) ==
    Try(read_u32_le(s, p), LAMBDA data1 :
    Try(read_u16_le(s, data1.pos), LAMBDA data2 :
    Try(read_u16_le(s, data2.pos), LAMBDA data3 :
    Try(read_exact(s, data3.pos, 8), LAMBDA data4 :
    Ok([data1 |-> data1.val, data2 |-> data2.val, data3 |-> data3.val,
        data4 |-> data4.val], data4.pos)))))

(***************************************************************************)
(* AceType (src/src/security/ace.rs): the variants, by their byte value.   *)
(***************************************************************************)
AccessAllowed == 0
AccessDenied == 1
SystemAudit == 2
SystemAlarm == 3
AccessAllowedCompound == 4
AccessAllowedObject == 5
AccessDeniedObject == 6
SystemAuditObject == 7
SystemAlarmObject == 8
AccessAllowedCallback == 9
AccessDeniedCallback == 10
AccessAllowedCallbackObject == 11
AccessDeniedCallbackObject == 12
SystemAuditCallback == 13
SystemAlarmCallback == 14
SystemAuditCallbackObject == 15
SystemAlarmCallbackObject == 16
SystemMandatoryLabel == 17

AceType ==
    {AccessAllowed, AccessDenied, SystemAudit, SystemAlarm,
     AccessAllowedCompound, AccessAllowedObject, AccessDeniedObject,
     SystemAuditObject, SystemAlarmObject, AccessAllowedCallback,
     AccessDeniedCallback, AccessAllowedCallbackObject,
     AccessDeniedCallbackObject, SystemAuditCallback, SystemAlarmCallback,
     SystemAuditCallbackObject, SystemAlarmCallbackObject,
     SystemMandatoryLabel}

\* #[derive(FromPrimitive)] AceType::from_u8: Some(variant) for the byte of a
\* variant, None for any other byte (<<v>> is Some(v), <<>> is None).
AceType_from_u8(b) == IF b \in AceType THEN <<b>> ELSE <<>>

\* AceType::is_basic
AceType_is_basic(t) ==
    t \in {AccessAllowed, AccessDenied, SystemAudit, SystemAlarm,
           AccessAllowedCallback, AccessDeniedCallback, SystemAuditCallback,
           SystemAlarmCallback, SystemMandatoryLabel}

\* A faulty variant of AceType_is_object: the compound type counted as an object type.
AceType_is_object_with_compound(t) ==
    t \in {AccessAllowedCompound, AccessAllowedObject, AccessDeniedObject,
           SystemAuditObject, SystemAlarmObject, AccessAllowedCallbackObject,
           AccessDeniedCallbackObject, SystemAuditCallbackObject,
           SystemAlarmCallbackObject}

\* AceType::is_object
AceType_is_object(t) ==
    t \in {AccessAllowedObject, AccessDeniedObject, SystemAuditObject,
           SystemAlarmObject, AccessAllowedCallbackObject,
           AccessDeniedCallbackObject, SystemAuditCallbackObject,
           SystemAlarmCallbackObject}

(***************************************************************************)
(* Flag sets (bitflags!): from_bits_truncate keeps the defined bits.       *)
(***************************************************************************)
OBJECT_INHERIT_ACE == 1
CONTAINER_INHERIT_ACE == 2
NO_PROPAGATE_INHERIT_ACE == 4
INHERIT_ONLY_ACE == 8

\* A faulty variant of AceFlags_from_bits_truncate: every bit of the byte is
\* kept.
AceFlags_from_bits_unchecked(bits) == bits

AceFlags_from_bits_truncate(bits) ==
    BitAnd(bits, OBJECT_INHERIT_ACE + CONTAINER_INHERIT_ACE
                 + NO_PROPAGATE_INHERIT_ACE + INHERIT_ONLY_ACE)

ACE_OBJECT_TYPE_PRESENT == 1
ACE_INHERITED_OBJECT_TYPE_PRESENT == 2

AceObjectFlags_from_bits_truncate(bits) ==
    Wide_and(bits, u32_of(ACE_OBJECT_TYPE_PRESENT
                          + ACE_INHERITED_OBJECT_TYPE_PRESENT))

\* flags.contains(flag)
Contains(flags, flag) == Wide_and(flags, u32_of(flag)) = u32_of(flag)

(***************************************************************************)
(* Ace payloads (src/src/security/ace.rs).                                 *)
(***************************************************************************)
\* A faulty variant of AceBasic_from_reader: the access mask read as a
\* big-endian u32.
AceBasic_from_reader_big_endian(s, p) ==
    Try(read_u32_be(s, p), LAMBDA access_rights :
    Try(Sid_new(s, access_rights.pos), LAMBDA sid :
    Ok([access_rights |-> access_rights.val, sid |-> sid.val], sid.pos)))

\* AceBasic::from_reader
AceBasic_from_reader(s, p) ==
    Try(read_u32_le(s, p), LAMBDA access_rights :
    Try(Sid_new(s, access_rights.pos), LAMBDA sid :
    Ok([access_rights |-> access_rights.val, sid |-> sid.val], sid.pos)))

\* A faulty variant of OptionalGuid: both reads gated by ACE_OBJECT_TYPE_PRESENT.
OptionalGuid_same_bit(s, p, flags, flag) ==
    IF Wide_and(flags, u32_of(ACE_OBJECT_TYPE_PRESENT))
       = u32_of(ACE_OBJECT_TYPE_PRESENT)
    THEN Try(Guid_from_reader(s, p), LAMBDA guid : Ok(<<guid.val>>, guid.pos))
    ELSE Ok(<<>>, p)

\* The optional Guid reads of AceObject::from_reader: Some(Guid) when the
\* flag is set; None, and no byte read, when it is clear.
OptionalGuid(s, p, flags, flag) ==
    IF Contains(flags, flag)
    THEN Try(Guid_from_reader(s, p), LAMBDA guid : Ok(<<guid.val>>, guid.pos))
    ELSE Ok(<<>>, p)

\* AceObject::from_reader
AceObject_from_reader(s, p) ==
    Try(read_u32_le(s, p), LAMBDA access_rights :
    Try(read_u32_le(s, access_rights.pos), LAMBDA raw_flags :
    Try(Ok(AceObjectFlags_from_bits_truncate(raw_flags.val), raw_flags.pos),
        LAMBDA flags :
    Try(OptionalGuid(s, flags.pos, flags.val, ACE_OBJECT_TYPE_PRESENT),
        LAMBDA object_type :
    Try(OptionalGuid(s, object_type.pos, flags.val,
                     ACE_INHERITED_OBJECT_TYPE_PRESENT),
        LAMBDA inherited_type :
    Try(Sid_new(s, inherited_type.pos), LAMBDA sid :
    Ok([access_rights |-> access_rights.val,
        flags |-> flags.val,
        object_type |-> object_type.val,
        inherited_type |-> inherited_type.val,
        sid |-> sid.val],
       sid.pos)))))))

(***************************************************************************)
(* Ace (src/src/security/ace.rs).                                          *)
(***************************************************************************)
\* (size - 4) as usize: the difference is computed in u16.  With overflow
\* checks it panics when size < 4, without them it wraps.
DataBufferLen(size) ==
    IF size < 4 /\ overflow_checks
    THEN Panic("attempt to subtract with overflow")
    ELSE Ok((size - 4) % 65536, 0)

\* A faulty variant of AceData_dispatch: the payload decides, a payload that decodes as
\* AceBasic is Basic whatever the type.
AceData_dispatch_by_payload(ace_type, data_buffer) ==
    IF IsOk(AceBasic_from_reader(data_buffer, 0))
    THEN Ok([arm |-> "Basic",
             basic |-> AceBasic_from_reader(data_buffer, 0).val], 0)
    ELSE Ok([arm |-> "Unhandled", raw |-> data_buffer], 0)

\* The dispatch of Ace::from_reader on the type: the payload is decoded from
\* a cursor over data_buffer, whose position is dropped with it.
AceData_dispatch(ace_type, data_buffer) ==
    IF AceType_is_basic(ace_type)
    THEN Try(AceBasic_from_reader(data_buffer, 0), LAMBDA basic :
         Ok([arm |-> "Basic", basic |-> basic.val], basic.pos))
    ELSE IF AceType_is_object(ace_type)
    THEN Try(AceObject_from_reader(data_buffer, 0), LAMBDA object :
         Ok([arm |-> "Object", object |-> object.val], object.pos))
    ELSE Ok([arm |-> "Unhandled", raw |-> data_buffer], 0)

\* A faulty variant of AceType_or_error: an unknown byte is kept as a type of its own.
AceType_or_error_lenient(ace_type_byte) == Ok(ace_type_byte, 0)

\* AceType::from_u8(ace_type_byte).ok_or_else(|| Error::UnknownAceType {..})
AceType_or_error(ace_type_byte) ==
    IF AceType_from_u8(ace_type_byte) = <<>>
    THEN Err(UnknownAceType(ace_type_byte))
    ELSE Ok(AceType_from_u8(ace_type_byte)[1], 0)

\* A faulty variant of Ace_from_reader: the stream is left where the payload
\* decoder stopped reading.
Ace_from_reader_consumed(s, p) ==
    Try(read_u8(s, p), LAMBDA ace_type_byte :
    Try(AceType_or_error(ace_type_byte.val), LAMBDA ace_type :
    Try(read_u8(s, ace_type_byte.pos), LAMBDA raw_flags :
    Try(read_u16_le(s, raw_flags.pos), LAMBDA size :
    Try(DataBufferLen(size.val), LAMBDA len :
    Try(read_exact(s, size.pos, len.val), LAMBDA data_buffer :
    Try(AceData_dispatch(ace_type.val, data_buffer.val), LAMBDA data :
    Ok([ace_type |-> ace_type.val,
        ace_flags |-> AceFlags_from_bits_truncate(raw_flags.val),
        size |-> size.val,
        data |-> data.val],
       size.pos + data.pos))))))))

\* A faulty variant of Ace_from_reader: the payload is decoded from the
\* stream itself, which does not end where the ACE ends.
Ace_from_reader_unbounded(s, p) ==
    Try(read_u8(s, p), LAMBDA ace_type_byte :
    Try(AceType_or_error(ace_type_byte.val), LAMBDA ace_type :
    Try(read_u8(s, ace_type_byte.pos), LAMBDA raw_flags :
    Try(read_u16_le(s, raw_flags.pos), LAMBDA size :
    Try(DataBufferLen(size.val), LAMBDA len :
    Try(read_exact(s, size.pos, len.val), LAMBDA data_buffer :
    Try(AceData_dispatch(ace_type.val, SubSeq(s, size.pos + 1, Len(s))),
        LAMBDA data :
    Ok([ace_type |-> ace_type.val,
        ace_flags |-> AceFlags_from_bits_truncate(raw_flags.val),
        size |-> size.val,
        data |-> data.val],
       data_buffer.pos))))))))

\* Ace::from_reader
Ace_from_reader(s, p) ==
    Try(read_u8(s, p), LAMBDA ace_type_byte :
    Try(AceType_or_error(ace_type_byte.val), LAMBDA ace_type :
    Try(read_u8(s, ace_type_byte.pos), LAMBDA raw_flags :
    Try(read_u16_le(s, raw_flags.pos), LAMBDA size :
    Try(DataBufferLen(size.val), LAMBDA len :
    Try(read_exact(s, size.pos, len.val), LAMBDA data_buffer :
    Try(AceData_dispatch(ace_type.val, data_buffer.val), LAMBDA data :
    Ok([ace_type |-> ace_type.val,
        ace_flags |-> AceFlags_from_bits_truncate(raw_flags.val),
        size |-> size.val,
        data |-> data.val],
       data_buffer.pos))))))))

(***************************************************************************)
(* Acl (src/src/security/acl.rs).                                          *)
(***************************************************************************)
\* A faulty variant of Acl_loop: an ACE that fails to decode ends the loop
\* and the entries decoded so far are kept.
RECURSIVE Acl_loop_keep_partial(_, _, _, _)
Acl_loop_keep_partial(s, p, remaining, entries) ==
    IF remaining = 0 \/ ~IsOk(Ace_from_reader(s, p)) THEN Ok(entries, p)
    ELSE Try(Ace_from_reader(s, p), LAMBDA ace :
         Acl_loop_keep_partial(s, ace.pos, remaining - 1,
                               Append(entries, ace.val)))

\* for _ in 0..count { entries.push(Ace::from_reader(reader)?) }
RECURSIVE Acl_loop(_, _, _, _)
Acl_loop(s, p, remaining, entries) ==
    IF remaining = 0 THEN Ok(entries, p)
    ELSE Try(Ace_from_reader(s, p), LAMBDA ace :
         Acl_loop(s, ace.pos, remaining - 1, Append(entries, ace.val)))

\* A faulty variant of Acl_from_reader: the loop runs once more than `count`.
Acl_from_reader_one_more(s, p) ==
    Try(read_u8(s, p), LAMBDA revision :
    Try(read_u8(s, revision.pos), LAMBDA padding1 :
    Try(read_u16_le(s, padding1.pos), LAMBDA size :
    Try(read_u16_le(s, size.pos), LAMBDA count :
    Try(read_u16_le(s, count.pos), LAMBDA padding2 :
    Try(Acl_loop(s, padding2.pos, count.val + 1, <<>>), LAMBDA entries :
    Ok([revision |-> revision.val,
        padding1 |-> padding1.val,
        size |-> size.val,
        count |-> count.val,
        padding2 |-> padding2.val,
        entries |-> entries.val],
       entries.pos)))))))

\* Acl::from_reader
Acl_from_reader(s, p) ==
    Try(read_u8(s, p), LAMBDA revision :
    Try(read_u8(s, revision.pos), LAMBDA padding1 :
    Try(read_u16_le(s, padding1.pos), LAMBDA size :
    Try(read_u16_le(s, size.pos), LAMBDA count :
    Try(read_u16_le(s, count.pos), LAMBDA padding2 :
    Try(Acl_loop(s, padding2.pos, count.val, <<>>), LAMBDA entries :
    Ok([revision |-> revision.val,
        padding1 |-> padding1.val,
        size |-> size.val,
        count |-> count.val,
        padding2 |-> padding2.val,
        entries |-> entries.val],
       entries.pos)))))))

(***************************************************************************)
(* SecDescHeader (src/src/security/sec_desc.rs).                           *)
(***************************************************************************)
SE_OWNER_DEFAULTED == 1
SE_GROUP_DEFAULTED == 2
SE_DACL_PRESENT == 4
SE_DACL_DEFAULTED == 8
SE_SACL_PRESENT == 16
SE_SACL_DEFAULTED == 32
SE_DACL_AUTO_INHERIT_REQ == 256
SE_SACL_AUTO_INHERIT_REQ == 512
SE_DACL_AUTO_INHERITED == 1024
SE_SACL_AUTO_INHERITED == 2048
SE_SACL_PROTECTED == 8192
SE_RM_CONTROL_VALID == 16384
SE_SELF_RELATIVE == 32768

\* A faulty variant of SdControlFlags_from_bits_truncate: every bit of the
\* word is kept.
SdControlFlags_from_bits_unchecked(bits) == bits

SdControlFlags_from_bits_truncate(bits) ==
    BitAnd(bits, SE_OWNER_DEFAULTED + SE_GROUP_DEFAULTED + SE_DACL_PRESENT
                 + SE_DACL_DEFAULTED + SE_SACL_PRESENT + SE_SACL_DEFAULTED
                 + SE_DACL_AUTO_INHERIT_REQ + SE_SACL_AUTO_INHERIT_REQ
                 + SE_DACL_AUTO_INHERITED + SE_SACL_AUTO_INHERITED
                 + SE_SACL_PROTECTED + SE_RM_CONTROL_VALID
                 + SE_SELF_RELATIVE)

\* LittleEndian::read_u16(&buffer[a..a+2]) and read_u32(&buffer[a..a+4]) on a
\* slice; a is the 0-based index of the first byte.
LittleEndian_read_u16(buffer, a) == buffer[a + 1] + 256 * buffer[a + 2]

LittleEndian_read_u32(buffer, a) ==
    <<buffer[a + 3] + 256 * buffer[a + 4], buffer[a + 1] + 256 * buffer[a + 2]>>

\* A faulty variant of SecDescHeader_new: the DACL offset taken from bytes
\* 12..16 and the SACL offset from bytes 16..20.
SecDescHeader_new_dacl_first(buffer) ==
    [revision_number |-> buffer[1],
     padding1 |-> buffer[2],
     control_flags |->
         SdControlFlags_from_bits_truncate(LittleEndian_read_u16(buffer, 2)),
     owner_sid_offset |-> LittleEndian_read_u32(buffer, 4),
     group_sid_offset |-> LittleEndian_read_u32(buffer, 8),
     sacl_offset |-> LittleEndian_read_u32(buffer, 16),
     dacl_offset |-> LittleEndian_read_u32(buffer, 12)]

\* SecDescHeader::new, on the 20 bytes of header_buff.
SecDescHeader_new(buffer) ==
    [revision_number |-> buffer[1],
     padding1 |-> buffer[2],
     control_flags |->
         SdControlFlags_from_bits_truncate(LittleEndian_read_u16(buffer, 2)),
     owner_sid_offset |-> LittleEndian_read_u32(buffer, 4),
     group_sid_offset |-> LittleEndian_read_u32(buffer, 8),
     sacl_offset |-> LittleEndian_read_u32(buffer, 12),
     dacl_offset |-> LittleEndian_read_u32(buffer, 16)]

(***************************************************************************)
(* SecurityDescriptor::new (src/src/security/sec_desc.rs), one action per  *)
(* step of the function.                                                   *)
(***************************************************************************)
\* A faulty variant of SeekTarget: the offset taken from the start of the stream.
SeekTarget_absolute(offset_base, offset) == u64_from_u32(offset)

\* SeekFrom::Start(_offset + offset as u64): the absolute seek target.
SeekTarget(offset_base, offset) == u64_add(offset_base, u64_from_u32(offset))

\* A faulty variant of Fail: the failure is recorded and the step is tried
\* again.
Fail_retry(r) ==
    /\ result' = r
    /\ pc' = pc

\* A `?` on a failed step: the function returns the failure.
Fail(r) ==
    /\ result' = r
    /\ pc' = IF r.tag = "Panic" THEN "panicked" ELSE "failed"

\* let _offset = read_seek.tell();
SD_tell ==
    /\ UNCHANGED outside
    /\ op = "none"
    /\ op' = "SecurityDescriptor"
    /\ pc' = "header"
    /\ base' = pos
    /\ UNCHANGED <<overflow_checks, stream, pos, start, header, owner_sid,
                   group_sid, dacl, sacl, seeks, result>>

\* read_exact(&mut header_buff)?; SecDescHeader::new(&header_buff)?
SD_header ==
    /\ UNCHANGED outside
    /\ op = "SecurityDescriptor" /\ pc = "header"
    /\ LET header_buff == read_exact(stream, CursorIndex(pos), 20) IN
       IF IsOk(header_buff)
       THEN /\ header' = <<SecDescHeader_new(header_buff.val)>>
            /\ pos' = Position(header_buff.pos)
            /\ pc' = "owner_sid"
            /\ UNCHANGED result
       ELSE /\ Fail(header_buff)
            /\ UNCHANGED <<header, pos>>
    /\ UNCHANGED <<overflow_checks, stream, op, start, base, owner_sid,
                   group_sid, dacl, sacl, seeks>>

\* seek(Start(_offset + header.owner_sid_offset))?; Sid::new(&mut read_seek)?
SD_owner_sid ==
    /\ UNCHANGED outside
    /\ op = "SecurityDescriptor" /\ pc = "owner_sid"
    /\ LET target == SeekTarget(base, header[1].owner_sid_offset)
           sid == Sid_new(stream, CursorIndex(target))
       IN
       /\ seeks' = Append(seeks, [step |-> "owner_sid", to |-> target])
       /\ IF IsOk(sid)
          THEN /\ owner_sid' = <<sid.val>>
               /\ pos' = Position(sid.pos)
               /\ pc' = "group_sid"
               /\ UNCHANGED result
          ELSE /\ Fail(sid)
               /\ pos' = target
               /\ UNCHANGED owner_sid
    /\ UNCHANGED <<overflow_checks, stream, op, start, base, header,
                   group_sid, dacl, sacl>>

\* seek(Start(_offset + header.group_sid_offset))?; Sid::new(&mut read_seek)?
SD_group_sid ==
    /\ UNCHANGED outside
    /\ op = "SecurityDescriptor" /\ pc = "group_sid"
    /\ LET target == SeekTarget(base, header[1].group_sid_offset)
           sid == Sid_new(stream, CursorIndex(target))
       IN
       /\ seeks' = Append(seeks, [step |-> "group_sid", to |-> target])
       /\ IF IsOk(sid)
          THEN /\ group_sid' = <<sid.val>>
               /\ pos' = Position(sid.pos)
               /\ pc' = "dacl"
               /\ UNCHANGED result
          ELSE /\ Fail(sid)
               /\ pos' = target
               /\ UNCHANGED group_sid
    /\ UNCHANGED <<overflow_checks, stream, op, start, base, header,
                   owner_sid, dacl, sacl>>

\* A faulty variant of DaclPresent: presence decided by the SE_DACL_PRESENT bit.
DaclPresent_by_flag(h) == BitAnd(h.control_flags, SE_DACL_PRESENT) # 0

\* match header.dacl_offset > 0 { true => seek, Some(Acl::new(..)?), false => None }
DaclPresent(h) == GreaterThanZero(h.dacl_offset)

SD_dacl ==
    /\ UNCHANGED outside
    /\ op = "SecurityDescriptor" /\ pc = "dacl"
    /\ IF DaclPresent(header[1])
       THEN LET target == SeekTarget(base, header[1].dacl_offset)
                acl == Acl_from_reader(stream, CursorIndex(target))
            IN
            /\ seeks' = Append(seeks, [step |-> "dacl", to |-> target])
            /\ IF IsOk(acl)
               THEN /\ dacl' = <<acl.val>>
                    /\ pos' = Position(acl.pos)
                    /\ pc' = "sacl"
                    /\ UNCHANGED result
               ELSE /\ Fail(acl)
                    /\ pos' = target
                    /\ UNCHANGED dacl
       ELSE /\ dacl' = <<>>
            /\ pc' = "sacl"
            /\ UNCHANGED <<pos, seeks, result>>
    /\ UNCHANGED <<overflow_checks, stream, op, start, base, header,
                   owner_sid, group_sid, sacl>>

\* match header.sacl_offset > 0 { true => seek, Some(Acl::new(..)?), false => None }
SaclPresent(h) == GreaterThanZero(h.sacl_offset)

SD_sacl ==
    /\ UNCHANGED outside
    /\ op = "SecurityDescriptor" /\ pc = "sacl"
    /\ IF SaclPresent(header[1])
       THEN LET target == SeekTarget(base, header[1].sacl_offset)
                acl == Acl_from_reader(stream, CursorIndex(target))
            IN
            /\ seeks' = Append(seeks, [step |-> "sacl", to |-> target])
            /\ IF IsOk(acl)
               THEN /\ sacl' = <<acl.val>>
                    /\ pos' = Position(acl.pos)
                    /\ pc' = "return"
                    /\ UNCHANGED result
               ELSE /\ Fail(acl)
                    /\ pos' = target
                    /\ UNCHANGED sacl
       ELSE /\ sacl' = <<>>
            /\ pc' = "return"
            /\ UNCHANGED <<pos, seeks, result>>
    /\ UNCHANGED <<overflow_checks, stream, op, start, base, header,
                   owner_sid, group_sid, dacl>>

\* Ok(SecurityDescriptor { header, owner_sid, group_sid, dacl, sacl })
SD_return ==
    /\ UNCHANGED outside
    /\ op = "SecurityDescriptor" /\ pc = "return"
    /\ result' = Ok([header |-> header[1],
                     owner_sid |-> owner_sid[1],
                     group_sid |-> group_sid[1],
                     dacl |-> dacl,
                     sacl |-> sacl], CursorIndex(pos))
    /\ pc' = "done"
    /\ UNCHANGED <<overflow_checks, stream, pos, op, start, base, header,
                   owner_sid, group_sid, dacl, sacl, seeks>>

(***************************************************************************)
(* The other entry points, each called once on the stream.                 *)
(***************************************************************************)
\* The caller invokes entry point `name`, which returns outcome r.  A
\* successful decode leaves the reader after the bytes it consumed.
Call(name, r) ==
    /\ UNCHANGED outside
    /\ op = "none"
    /\ op' = name
    /\ result' = r
    /\ pc' = IF IsOk(r) THEN "done"
             ELSE IF r.tag = "Panic" THEN "panicked" ELSE "failed"
    /\ pos' = IF IsOk(r) THEN Position(r.pos) ELSE pos
    /\ UNCHANGED <<overflow_checks, stream, start, base, header, owner_sid,
                   group_sid, dacl, sacl, seeks>>

CallAcl == Call("Acl", Acl_from_reader(stream, CursorIndex(pos)))

CallAce == Call("Ace", Ace_from_reader(stream, CursorIndex(pos)))

CallSid == Call("Sid", Sid_new(stream, CursorIndex(pos)))

CallAuthority ==
    Call("Authority", Authority_from_reader(stream, CursorIndex(pos)))

\* AceType::from_u8 on the next byte of the stream, then the classification
\* of the variant.
CallAceType ==
    /\ CursorIndex(pos) < Len(stream)
    /\ LET t == AceType_from_u8(stream[CursorIndex(pos) + 1]) IN
       Call("AceType",
            Ok([ace_type |-> t,
                is_basic |-> t # <<>> /\ AceType_is_basic(t[1]),
                is_object |-> t # <<>> /\ AceType_is_object(t[1])],
               CursorIndex(pos) + 1))

(***************************************************************************)
(* MftReference (src/src/ntfs/mft_reference.rs) and the serialization of   *)
(* the MftReference of src/src/reference.rs with serialize_u64             *)
(* (src/src/serialize.rs).                                                 *)
(***************************************************************************)
read_u64_le(s, p) ==
    IF p + 8 <= Len(s)
    THEN Ok(<<s[p + 7] + 256 * s[p + 8], s[p + 5] + 256 * s[p + 6],
              s[p + 3] + 256 * s[p + 4], s[p + 1] + 256 * s[p + 2]>>, p + 8)
    ELSE Err(IoError)

\* u64::to_le_bytes
to_le_bytes(v) ==
    <<v[4] % 256, v[4] \div 256, v[3] % 256, v[3] \div 256,
      v[2] % 256, v[2] \div 256, v[1] % 256, v[1] \div 256>>

\* LittleEndian::read_u64 on an 8-byte slice.
LittleEndian_read_u64(buffer) ==
    <<buffer[7] + 256 * buffer[8], buffer[5] + 256 * buffer[6],
      buffer[3] + 256 * buffer[4], buffer[1] + 256 * buffer[2]>>

\* A faulty variant of MftReference_from: the sequence taken from the two
\* low bytes and the entry from the six high ones.
MftReference_from_sequence_first(mft_entry) ==
    [entry |-> LittleEndian_read_u64(
                   SubSeq(to_le_bytes(mft_entry), 3, 8) \o <<0, 0>>),
     sequence |-> LittleEndian_read_u16(to_le_bytes(mft_entry), 0)]

\* impl From<u64> for MftReference: the sequence is read from bytes 6..8,
\* which are then zeroed, and the entry from the eight bytes.
MftReference_from(mft_entry) ==
    [entry |-> LittleEndian_read_u64(
                   [to_le_bytes(mft_entry) EXCEPT ![7] = 0, ![8] = 0]),
     sequence |-> LittleEndian_read_u16(to_le_bytes(mft_entry), 6)]

\* reference.rs, MftReference::get_enum_ref
get_enum_ref(v) ==
    [reference |-> LittleEndian_read_u64(to_le_bytes(v)),
     entry |-> LittleEndian_read_u64(SubSeq(to_le_bytes(v), 1, 6) \o <<0, 0>>),
     sequence |-> LittleEndian_read_u16(to_le_bytes(v), 6)]

\* A faulty variant of MftReference_from_reader: the shape of the decoded
\* value follows the process-wide switch NESTED_REFERENCE.
MftReference_from_reader_by_switch(s, p) ==
    Try(read_u64_le(s, p), LAMBDA mft_entry :
    Ok(IF NESTED_REFERENCE THEN get_enum_ref(mft_entry.val)
       ELSE MftReference_from(mft_entry.val), mft_entry.pos))

\* MftReference::from_reader
MftReference_from_reader(s, p) ==
    Try(read_u64_le(s, p), LAMBDA mft_entry :
    Ok(MftReference_from(mft_entry.val), mft_entry.pos))

CallMftReference ==
    Call("MftReference", MftReference_from_reader(stream, CursorIndex(pos)))

\* The bytes of a u16 in little-endian order (transmute(sequence.to_le())).
u16_to_le_bytes(x) == <<x % 256, x \div 256>>

\* A faulty variant of get_from_entry_and_seq: the two sequence bytes
\* appended in big-endian order.
get_from_entry_and_seq_swapped(entry, sequence) ==
    LittleEndian_read_u64(
        SubSeq(to_le_bytes(entry), 1, 6)
        \o <<u16_to_le_bytes(sequence)[2], u16_to_le_bytes(sequence)[1]>>)

\* reference.rs, MftReference::get_from_entry_and_seq: the first six bytes
\* of the entry, then the two bytes of the sequence, read as one u64.
get_from_entry_and_seq(entry, sequence) ==
    LittleEndian_read_u64(
        SubSeq(to_le_bytes(entry), 1, 6) \o u16_to_le_bytes(sequence))

\* reference.rs, MftReference::from_entry_and_seq: the value left in self.0.
from_entry_and_seq(entry, sequence) ==
    LittleEndian_read_u64(
        SubSeq(SubSeq(to_le_bytes(entry), 1, 6) \o u16_to_le_bytes(sequence),
               1, 8))

\* The caller builds a reference both ways from the entry (the u64 of the
\* next eight bytes) and the sequence (the u16 of the two bytes after them)
\* and splits it again.
CallReference ==
    /\ CursorIndex(pos) + 10 <= Len(stream)
    /\ LET entry == LittleEndian_read_u64(
                        SubSeq(stream, CursorIndex(pos) + 1, CursorIndex(pos) + 8))
           sequence == LittleEndian_read_u16(stream, CursorIndex(pos) + 8)
       IN Call("Reference",
               Ok([built |-> get_from_entry_and_seq(entry, sequence),
                   in_place |-> from_entry_and_seq(entry, sequence),
                   split |-> get_enum_ref(
                                 get_from_entry_and_seq(entry, sequence))],
                  CursorIndex(pos) + 10))

\* serialize_u64, `mode` being the value it reads from U64_SERIALIZATION: the
\* number itself, or the string of its decimal digits.
serialize_u64(item, mode) ==
    IF mode = "AsU64"
    THEN [as |-> "u64", value |-> item]
    ELSE [as |-> "str", value |-> Decimal(item)]

\* The MftReference(u64) the caller serializes: the little-endian u64 of the
\* eight bytes at the stream position.
ReferenceToSerialize ==
    LittleEndian_read_u64(
        SubSeq(stream, CursorIndex(pos) + 1, CursorIndex(pos) + 8))

\* impl Serialize for MftReference: `if unsafe{NESTED_REFERENCE}`.
Serialize_begin ==
    /\ op = "none"
    /\ CursorIndex(pos) + 8 <= Len(stream)
    /\ op' = "Serialize"
    /\ pc' = IF NESTED_REFERENCE THEN "nested" ELSE "plain"
    /\ UNCHANGED <<overflow_checks, stream, pos, start, base, header,
                   owner_sid, group_sid, dacl, sacl, seeks, result, outside>>

\* The branch taken: the enumerated structure, its `reference` field through
\* serialize_u64, or the u64 through serialize_u64, which reads
\* U64_SERIALIZATION.
Serialize_u64 ==
    /\ op = "Serialize" /\ pc \in {"nested", "plain"}
    /\ result' =
           Ok(IF pc = "plain"
              THEN serialize_u64(ReferenceToSerialize, U64_SERIALIZATION)
              ELSE [mft_reference |->
                       [reference |->
                            serialize_u64(
                                get_enum_ref(ReferenceToSerialize).reference,
                                U64_SERIALIZATION),
                        entry |-> get_enum_ref(ReferenceToSerialize).entry,
                        sequence |->
                            get_enum_ref(ReferenceToSerialize).sequence]],
              CursorIndex(pos))
    /\ pc' = "done"
    /\ UNCHANGED <<overflow_checks, stream, pos, op, start, base, header,
                   owner_sid, group_sid, dacl, sacl, seeks, outside>>

\* reference::NESTED_REFERENCE = b, by the caller or by another thread.
SetNestedReference ==
    /\ NESTED_REFERENCE' = ~NESTED_REFERENCE
    /\ UNCHANGED <<overflow_checks, stream, pos, op, pc, start, base, header,
                   owner_sid, group_sid, dacl, sacl, seeks, result,
                   U64_SERIALIZATION, previous>>

\* serialize::U64_SERIALIZATION = mode, by the caller or by another thread.
SetU64Serialization ==
    /\ U64_SERIALIZATION' =
           (IF U64_SERIALIZATION = "AsU64" THEN "AsString" ELSE "AsU64")
    /\ UNCHANGED <<overflow_checks, stream, pos, op, pc, start, base, header,
                   owner_sid, group_sid, dacl, sacl, seeks, result,
                   NESTED_REFERENCE, previous>>

\* The caller keeps the outcome of its first call and sets the stream back
\* to where the call started, for another call.
Rewind ==
    /\ op # "none" /\ pc \in {"done", "failed"}
    /\ previous' = IF previous = <<>>
                   THEN <<[name |-> op, outcome |-> result]>>
                   ELSE previous
    /\ op' = "none"
    /\ pc' = "start"
    /\ pos' = start
    /\ base' = Position(0)
    /\ header' = <<>>
    /\ owner_sid' = <<>>
    /\ group_sid' = <<>>
    /\ dacl' = <<>>
    /\ sacl' = <<>>
    /\ seeks' = <<>>
    /\ result' = <<>>
    /\ UNCHANGED <<overflow_checks, stream, start, NESTED_REFERENCE,
                   U64_SERIALIZATION>>

(***************************************************************************)
(* MS-DOS dates and times (src/src/timestamp.rs).  The calendar of chrono  *)
(* panics when it is handed a date or a time that does not exist.          *)
(***************************************************************************)
\* x >> n on an unsigned value.
ShiftRight(x, n) == x \div (2 ^ n)

\* chrono::NaiveDate::from_ymd: the date, or a panic when the month is not
\* in 1..12 or the day not a day of that month.
IsLeapYear(year) == year % 4 = 0 /\ (year % 100 # 0 \/ year % 400 = 0)

DaysInMonth(year, month) ==
    IF month = 2 THEN (IF IsLeapYear(year) THEN 29 ELSE 28)
    ELSE IF month \in {4, 6, 9, 11} THEN 30 ELSE 31

NaiveDate_from_ymd(year, month, day) ==
    IF month \in 1..12 /\ day \in 1..DaysInMonth(year, month)
    THEN Ok([year |-> year, month |-> month, day |-> day], 0)
    ELSE Panic("invalid or out-of-range date")

\* chrono::NaiveTime::from_hms: the time, or a panic when the hour, the
\* minute or the second is out of range.
NaiveTime_from_hms(hour, min, sec) ==
    IF hour < 24 /\ min < 60 /\ sec < 60
    THEN Ok([hour |-> hour, min |-> min, sec |-> sec], 0)
    ELSE Panic("invalid time")

\* DosDate::from_reader
DosDate_from_reader(s, p) == read_u16_le(s, p)

\* A faulty variant of DosDate_fields: a zero day or month is passed on as
\* it is.
DosDate_fields_keep_zero(date) ==
    [year |-> ShiftRight(date, 9) + 1980,
     month |-> BitAnd(ShiftRight(date, 5), 15),
     day |-> BitAnd(date, 31)]

\* DosDate::to_date, up to the call of the calendar: day, month and year.
DosDate_fields(date) ==
    [year |-> ShiftRight(date, 9) + 1980,
     month |-> IF BitAnd(ShiftRight(date, 5), 15) = 0 THEN 1
               ELSE BitAnd(ShiftRight(date, 5), 15),
     day |-> IF BitAnd(date, 31) = 0 THEN 1 ELSE BitAnd(date, 31)]

\* DosDate::to_date
DosDate_to_date(date) ==
    NaiveDate_from_ymd(DosDate_fields(date).year, DosDate_fields(date).month,
                       DosDate_fields(date).day)

\* DosTime::new: the read is unwrapped, a short read panics.
DosTime_new(s, p) ==
    IF IsOk(read_u16_le(s, p)) THEN read_u16_le(s, p)
    ELSE Panic("called Result::unwrap() on an Err value")

\* A faulty variant of DosTime_fields: the seconds field is not doubled.
DosTime_fields_single_seconds(time) ==
    [hour |-> BitAnd(ShiftRight(time, 11), 31),
     min |-> BitAnd(ShiftRight(time, 5), 63),
     sec |-> BitAnd(time, 31)]

\* DosTime::to_time, up to the call of the calendar: sec, min and hour.
DosTime_fields(time) ==
    [hour |-> BitAnd(ShiftRight(time, 11), 31),
     min |-> BitAnd(ShiftRight(time, 5), 63),
     sec |-> BitAnd(time, 31) * 2]

\* DosTime::to_time
DosTime_to_time(time) ==
    NaiveTime_from_hms(DosTime_fields(time).hour, DosTime_fields(time).min,
                       DosTime_fields(time).sec)

\* DosDateTime::new
DosDateTime_new(s, p) == read_u32_le(s, p)

\* DosDateTime::to_datetime: the date of the low 16 bits, then the time of
\* the high 16 bits.
DosDateTime_to_datetime(datetime) ==
    Try(DosDate_to_date(datetime[2]), LAMBDA date :
    Try(DosTime_to_time(datetime[1]), LAMBDA time :
    Ok([date |-> date.val, time |-> time.val], 0)))

\* The caller reads a value from the stream and converts it.
CallDosDate ==
    Call("DosDate",
         Try(DosDate_from_reader(stream, CursorIndex(pos)), LAMBDA dos_date :
         Try(DosDate_to_date(dos_date.val), LAMBDA date :
         Ok(date.val, dos_date.pos))))

CallDosTime ==
    Call("DosTime",
         Try(DosTime_new(stream, CursorIndex(pos)), LAMBDA dos_time :
         Try(DosTime_to_time(dos_time.val), LAMBDA time :
         Ok(time.val, dos_time.pos))))

CallDosDateTime ==
    Call("DosDateTime",
         Try(DosDateTime_new(stream, CursorIndex(pos)), LAMBDA dos_datetime :
         Try(DosDateTime_to_datetime(dos_datetime.val), LAMBDA datetime :
         Ok(datetime.val, dos_datetime.pos))))

(***************************************************************************)
(* The explored inputs: byte streams assembled from encoded samples.       *)
(***************************************************************************)
LE16(n) == <<n % 256, (n \div 256) % 256>>

LE32(n) ==
    <<n % 256, (n \div 256) % 256, (n \div 65536) % 256,
      (n \div 16777216) % 256>>

\* All sequences over S of length 0..n.
RECURSIVE SeqsUpTo(_, _)
SeqsUpTo(S, n) ==
    IF n = 0 THEN {<<>>}
    ELSE LET shorter == SeqsUpTo(S, n - 1) IN
         shorter \cup {Append(q, x) : q \in shorter, x \in S}

RECURSIVE Flatten(_)
Flatten(seqs) == IF seqs = <<>> THEN <<>> ELSE Head(seqs) \o Flatten(Tail(seqs))

\* SIDs: S-1-5-18 (the sample of the tests), one without sub-authorities,
\* S-1-5-32-544, and one whose authority has a nonzero high part.
SidSystem == <<1, 1, 0, 0, 0, 0, 0, 5, 18, 0, 0, 0>>

SidNoSub == <<1, 0, 0, 0, 0, 0, 0, 5>>

SidAdmins == <<1, 2, 0, 0, 0, 0, 0, 5, 32, 0, 0, 0, 32, 2, 0, 0>>

SidHighAuthority == <<1, 1, 0, 1, 0, 3, 0, 5, 7, 0, 0, 0>>

\* The sub-authority list of the tests (18, 1577728, 983103) in a SID, and a
\* SID whose count byte is 64, followed by 64 sub-authorities.
SidThreeSubs ==
    <<1, 3, 0, 0, 0, 0, 0, 5, 18, 0, 0, 0, 0, 19, 24, 0, 63, 0, 15, 0>>

SidCount64 == <<1, 64, 0, 0, 0, 0, 0, 5>> \o [i \in 1..256 |-> i % 256]

SidSamples ==
    {SidSystem, SidNoSub, SidAdmins, SidHighAuthority, SidThreeSubs, SidCount64}

\* The GUIDs of the object ACE of the tests and a second one.
GuidA ==
    <<15, 214, 71, 91, 144, 96, 178, 64, 159, 55, 42, 77, 232, 143, 48, 99>>

GuidB ==
    <<1, 2, 3, 4, 5, 6, 7, 8, 9, 10, 11, 12, 13, 14, 15, 16>>

\* ACE payloads: a basic one, and object ones for each value of the object
\* flags (5 and 6 carry an undefined bit).
BasicPayload == <<255, 1, 15, 0>> \o SidSystem

ObjectPayload(flags) ==
    <<48, 0, 0, 0>> \o LE32(flags)
    \o (IF flags % 2 = 1 THEN GuidA ELSE <<>>)
    \o (IF (flags \div 2) % 2 = 1 THEN GuidB ELSE <<>>)
    \o SidAdmins

PayloadSamples == {BasicPayload} \cup {ObjectPayload(f) : f \in {0, 1, 2, 3, 5}}

AceBytes(type, flags, size, payload) == <<type, flags>> \o LE16(size) \o payload

\* Type bytes: the 18 variants and two bytes that are no variant.
TypeBytes == AceType \cup {18, 255}

\* (a) every type byte on every payload, with the size the payload has;
\* (b) some types with sizes below 4, short of and beyond the payload, with
\*     and without bytes following the ACE.
AceStreams ==
    {AceBytes(t, 18, 4 + Len(pl), pl) : t \in TypeBytes, pl \in PayloadSamples}
    \cup
    UNION {{AceBytes(t, f, sz, pl) \o tl :
              sz \in {0, 1, 2, 3, Len(pl), 4 + Len(pl), 8 + Len(pl)},
              tl \in {<<>>, AceBytes(1, 0, 20, BasicPayload)}} :
           t \in {AccessAllowed, AccessAllowedCompound, AccessAllowedObject,
                  255},
           f \in {0, 250},
           pl \in {BasicPayload, ObjectPayload(1)}}

\* ACLs: `count` is chosen independently of the ACEs that follow the header,
\* so the stream holds fewer, as many or more ACEs than declared; the
\* declared size is right, zero, or the largest u16.
AceSamples ==
    {AceBytes(AccessAllowed, 0, 20, BasicPayload),
     AceBytes(AccessAllowedCompound, 2, 8, <<9, 8, 7, 6>>),
     AceBytes(AccessAllowedObject, 18, 4 + Len(ObjectPayload(1)),
              ObjectPayload(1))}

UnknownAce == AceBytes(255, 0, 8, <<0, 0, 0, 0>>)

AclBytes(size, count, aces) == <<2, 0>> \o LE16(size) \o LE16(count) \o <<0, 0>> \o aces

AclStreams ==
    UNION {{AclBytes(sz, count, Flatten(aces)) :
              sz \in {0, 8 + Len(Flatten(aces)), 65535}} :
           count \in 0..MaxAces,
           aces \in SeqsUpTo(AceSamples, MaxAces)}
    \cup {AclBytes(28, 2, AceSamples1 \o UnknownAce) :
            AceSamples1 \in {AceBytes(AccessAllowed, 0, 20, BasicPayload)}}

\* Authority: 6 bytes.
AuthorityStreams ==
    {<<b0, b1, b2, b3, b4, b5>> :
        b0 \in {0, 1}, b1 \in {0, 2}, b2 \in {0, 3}, b3 \in {0, 1, 255},
        b4 \in {0, 1, 255}, b5 \in {0, 5, 255}}

\* Security descriptors: `pad` bytes of other data, the 20-byte header, the
\* two ACLs, the owner and the group SID.  Each ACL offset is the offset of
\* the ACL or zero, whatever the control flags say; `cut` bytes are missing
\* at the end of the stream.
AclSampleA == AclBytes(28, 1, AceBytes(AccessAllowed, 0, 20, BasicPayload))

AclSampleB ==
    AclBytes(16, 2, AceBytes(AccessAllowedCompound, 2, 8, <<9, 8, 7, 6>>)
                    \o AceBytes(AccessDenied, 0, 20, BasicPayload))

AclSampleUnknown == AclBytes(16, 1, UnknownAce)

ControlFlagSamples == {0, 4, 16, 38932}

SdHeaderBytes(control, owner_off, group_off, sacl_off, dacl_off) ==
    <<1, 0>> \o LE16(control) \o LE32(owner_off) \o LE32(group_off)
    \o LE32(sacl_off) \o LE32(dacl_off)

SdBlob(control, dacl_acl, dacl_given, sacl_acl, sacl_given, owner, group) ==
    LET dacl_at == 20
        sacl_at == dacl_at + Len(dacl_acl)
        owner_at == sacl_at + Len(sacl_acl)
        group_at == owner_at + Len(owner)
    IN SdHeaderBytes(control, owner_at, group_at,
                     IF sacl_given THEN sacl_at ELSE 0,
                     IF dacl_given THEN dacl_at ELSE 0)
       \o dacl_acl \o sacl_acl \o owner \o group

Padding(n) == [i \in 1..n |-> 170 + i]

SdBlobs ==
    {SdBlob(c, da, dg, sa, sg, o, g) :
        c \in ControlFlagSamples,
        da \in {AclSampleA, AclSampleUnknown}, dg \in BOOLEAN,
        sa \in {AclSampleB}, sg \in BOOLEAN,
        o \in {SidSystem, SidHighAuthority}, g \in {SidAdmins, SidNoSub}}

SdInputs ==
    {[stream |-> Padding(pad) \o SubSeq(blob, 1, Len(blob) - cut),
      start |-> pad] :
        pad \in 0..MaxBase, blob \in SdBlobs, cut \in {0, 5}}

\* Streams that end early: every proper prefix of an object ACE carrying
\* both GUIDs, of a one-entry ACL and of a SID.
Prefixes(q) == {SubSeq(q, 1, n) : n \in 0..(Len(q) - 1)}

ObjectAceBothGuids ==
    AceBytes(AccessAllowedObject, 18, 4 + Len(ObjectPayload(3)), ObjectPayload(3))

TruncatedStreams ==
    Prefixes(ObjectAceBothGuids) \cup Prefixes(AclSampleA) \cup Prefixes(SidAdmins)

\* Object ACEs whose declared size ends the payload early, the bytes of the
\* full payload following in the stream.
ShortPayloadAces ==
    {AceBytes(AccessAllowedObject, 0, 4 + n, ObjectPayload(3)) :
        n \in {0, 2, 4, 6, 8, 16, 24, 30, 40, 42, 50}}

\* The ACE of the test_parses_basic_ace test.
SampleBasicAce ==
    <<0, 0, 20, 0, 255, 1, 15, 0, 1, 1, 0, 0, 0, 0, 0, 5, 18, 0, 0, 0>>

\* MFT references: the eight bytes of the test_mft_reference test and
\* eight-byte streams of low and high bytes.
SampleMftReference == <<115, 0, 0, 0, 0, 0, 104, 145>>

\* Entry 115 and sequence 37224 of the test_reference test: the entry as a
\* u64, then the sequence.
SampleEntryAndSeq == <<115, 0, 0, 0, 0, 0, 0, 0, 104, 145>>

\* Entries with and without bits above 2^48, each with a sequence.
EntryAndSeqStreams ==
    {SampleEntryAndSeq}
    \cup {<<b0, 0, b2, 0, 0, b5, b6, b7, q0, q1>> :
            b0 \in {0, 1}, b2 \in {0, 3}, b5 \in {0, 255}, b6 \in {0, 7},
            b7 \in {0, 128}, q0 \in {0, 9}, q1 \in {0, 255}}

MftReferenceStreams ==
    {SampleMftReference}
    \cup {<<b0, b1, 0, b3, 0, b5, b6, b7>> :
            b0 \in {0, 1}, b1 \in {0, 2}, b3 \in {0, 255}, b5 \in {0, 4},
            b6 \in {0, 5}, b7 \in {0, 128}}

\* The header of the sec_desc_header test, its two trailing bytes included.
SampleHeader ==
    <<1, 0, 4, 152, 152, 0, 0, 0, 164, 0, 0, 0, 0, 0, 0, 0, 20, 0, 0, 0, 2, 0>>

\* Headers like the sample with other control words: each single bit, none,
\* all, and the three bits that are no flag (0x0040, 0x0080, 0x1000).
ControlWords == {2 ^ k : k \in 0..15} \cup {0, 65535, 4288}

HeaderStreams == {SdHeaderBytes(w, 152, 164, 0, 20) : w \in ControlWords}

Inputs ==
    SdInputs
    \cup {[stream |-> s, start |-> 0] :
            s \in AceStreams \cup AclStreams \cup AuthorityStreams
                  \cup SidSamples \cup {SampleHeader} \cup HeaderStreams
                  \cup TruncatedStreams \cup ShortPayloadAces
                  \cup MftReferenceStreams \cup EntryAndSeqStreams}

\* MS-DOS values: dates of every day and month field in five years, times
\* of every seconds field in five minutes and five hours, and date-times
\* combined from some of them; a stream of one byte is too short for any.
PackDate(year, month, day) == (year * 16 + month) * 32 + day

PackTime(hour, min, sec) == (hour * 64 + min) * 32 + sec

DosDateValues ==
    {PackDate(y, m, d) : y \in {0, 20, 32, 120, 127}, m \in 0..15, d \in 0..31}

DosTimeValues ==
    {PackTime(h, m, x) :
        h \in {0, 21, 23, 24, 31}, m \in {0, 27, 59, 60, 63}, x \in 0..31}

DosDateTimeValues ==
    {<<t, d>> : t \in {0, 43874, PackTime(23, 59, 29), PackTime(24, 0, 0)},
               d \in {0, 16492, PackDate(20, 2, 29), PackDate(21, 2, 29)}}

DosStreams ==
    {LE16(v) : v \in DosDateValues \cup DosTimeValues}
    \cup {LE16(v[2]) \o LE16(v[1]) : v \in DosDateTimeValues}
    \cup {<<108>>}

DosInputs == {[stream |-> s, start |-> 0] : s \in DosStreams}

\* The streams of the repeated calls: one of each kind.
SwitchInputs ==
    {[stream |-> s, start |-> 0] :
        s \in {SampleMftReference, SampleBasicAce, ObjectAceBothGuids,
               AclSampleA, AclSampleUnknown, SidSystem,
               SubSeq(SidAdmins, 1, 10),
               AceBytes(AccessAllowed, 0, 3, BasicPayload)}}
    \cup {[stream |-> Padding(1) \o blob, start |-> 1] :
            blob \in {SdBlob(4, AclSampleA, TRUE, AclSampleB, sg,
                             SidSystem, SidAdmins) : sg \in BOOLEAN}}

(***************************************************************************)
(* The specification.                                                      *)
(***************************************************************************)
Init ==
    /\ overflow_checks \in BOOLEAN
    /\ \E input \in Inputs :
          /\ stream = input.stream
          /\ pos = Position(input.start)
          /\ start = Position(input.start)
    /\ op = "none"
    /\ pc = "start"
    /\ base = Position(0)
    /\ header = <<>>
    /\ owner_sid = <<>>
    /\ group_sid = <<>>
    /\ dacl = <<>>
    /\ sacl = <<>>
    /\ seeks = <<>>
    /\ result = <<>>
    /\ NESTED_REFERENCE = FALSE
    /\ U64_SERIALIZATION = "AsU64"
    /\ previous = <<>>

Next ==
    \/ SD_tell
    \/ SD_header
    \/ SD_owner_sid
    \/ SD_group_sid
    \/ SD_dacl
    \/ SD_sacl
    \/ SD_return
    \/ CallAcl
    \/ CallAce
    \/ CallSid
    \/ CallAuthority
    \/ CallAceType
    \/ CallMftReference
    \/ CallReference

Spec == Init /\ [][Next]_vars

\* The same entry points called repeatedly on a stream by a caller that also
\* serializes MftReference values, the process-wide switches being written
\* at any moment.
InitSwitches ==
    /\ overflow_checks \in BOOLEAN
    /\ \E input \in SwitchInputs :
          /\ stream = input.stream
          /\ pos = Position(input.start)
          /\ start = Position(input.start)
    /\ op = "none"
    /\ pc = "start"
    /\ base = Position(0)
    /\ header = <<>>
    /\ owner_sid = <<>>
    /\ group_sid = <<>>
    /\ dacl = <<>>
    /\ sacl = <<>>
    /\ seeks = <<>>
    /\ result = <<>>
    /\ NESTED_REFERENCE = FALSE
    /\ U64_SERIALIZATION = "AsU64"
    /\ previous = <<>>

NextSwitches ==
    \/ Next
    \/ Serialize_begin
    \/ Serialize_u64
    \/ SetNestedReference
    \/ SetU64Serialization
    \/ Rewind

SpecSwitches == InitSwitches /\ [][NextSwitches]_vars

\* The conversions of MS-DOS dates and times, each applied to a value read
\* from the stream.
InitDos ==
    /\ overflow_checks \in BOOLEAN
    /\ \E input \in DosInputs :
          /\ stream = input.stream
          /\ pos = Position(input.start)
          /\ start = Position(input.start)
    /\ op = "none"
    /\ pc = "start"
    /\ base = Position(0)
    /\ header = <<>>
    /\ owner_sid = <<>>
    /\ group_sid = <<>>
    /\ dacl = <<>>
    /\ sacl = <<>>
    /\ seeks = <<>>
    /\ result = <<>>
    /\ NESTED_REFERENCE = FALSE
    /\ U64_SERIALIZATION = "AsU64"
    /\ previous = <<>>

NextDos ==
    \/ CallDosDate
    \/ CallDosTime
    \/ CallDosDateTime

SpecDos == InitDos /\ [][NextDos]_vars

(***************************************************************************)
(* Properties.                                                             *)
(***************************************************************************)
\* The index at which the entry point started, and the bytes from there on.
StartIndex == CursorIndex(start)

FromStart == SubSeq(stream, StartIndex + 1, Len(stream))

\* The u32 encoded little-endian in bytes i+1..i+4 of q.
U32At(q, i) == <<q[i + 3] + 256 * q[i + 4], q[i + 1] + 256 * q[i + 2]>>

U16At(q, i) == q[i + 1] + 256 * q[i + 2]

SdRunning == op = "SecurityDescriptor"

SdDone == op = "SecurityDescriptor" /\ pc = "done"

\* The outcome of a step of the descriptor decode when the descriptor's own
\* bytes are decoded alone, with the header's offset taken from their start.
AloneOutcome(step) ==
    CASE step = "owner_sid" ->
           Sid_new(FromStart, CursorIndex(u64_from_u32(header[1].owner_sid_offset)))
      [] step = "group_sid" ->
           Sid_new(FromStart, CursorIndex(u64_from_u32(header[1].group_sid_offset)))
      [] step = "dacl" ->
           Acl_from_reader(FromStart, CursorIndex(u64_from_u32(header[1].dacl_offset)))
      [] step = "sacl" ->
           Acl_from_reader(FromStart, CursorIndex(u64_from_u32(header[1].sacl_offset)))

StepOffset(step) ==
    CASE step = "owner_sid" -> header[1].owner_sid_offset
      [] step = "group_sid" -> header[1].group_sid_offset
      [] step = "dacl" -> header[1].dacl_offset
      [] step = "sacl" -> header[1].sacl_offset

StepValue(step) ==
    CASE step = "owner_sid" -> owner_sid
      [] step = "group_sid" -> group_sid
      [] step = "dacl" -> dacl
      [] step = "sacl" -> sacl

\* C1: the descriptor decode records the position b at which it starts
\* before it reads the header, seeks to b + offset for the owner SID, the
\* group SID, the DACL and the SACL, and what each of these steps yields is
\* what it yields on the descriptor's bytes alone (base 0): the result does
\* not depend on where the descriptor is embedded.
C1_OffsetsRelativeToBase ==
    SdRunning =>
        /\ base = start
        /\ header # <<>> =>
               header[1] = SecDescHeader_new(SubSeq(FromStart, 1, 20))
        /\ \A i \in DOMAIN seeks :
               /\ seeks[i].to
                      = u64_add(start, u64_from_u32(StepOffset(seeks[i].step)))
               /\ IF i = Len(seeks) /\ pc \in {"failed", "panicked"}
                  THEN result = AloneOutcome(seeks[i].step)
                  ELSE /\ IsOk(AloneOutcome(seeks[i].step))
                       /\ StepValue(seeks[i].step)
                              = <<AloneOutcome(seeks[i].step).val>>

\* C1 witness: a descriptor embedded at a nonzero position decoded to the
\* end, both ACLs included.
C1_Witness ==
    /\ SdDone
    /\ CursorIndex(start) > 0
    /\ Len(seeks) = 4
    /\ result.val.dacl # <<>> /\ result.val.sacl # <<>>

\* C2: in a decoded descriptor the DACL is present iff the four DACL offset
\* bytes of the header (16..20) are not all zero, and the SACL iff the four
\* SACL offset bytes (12..16) are not all zero, whatever the control flags.
C2_PresenceByOffset ==
    SdDone =>
        /\ result.val.dacl # <<>> <=> SubSeq(FromStart, 17, 20) # <<0, 0, 0, 0>>
        /\ result.val.sacl # <<>> <=> SubSeq(FromStart, 13, 16) # <<0, 0, 0, 0>>

\* C2 witness: SE_DACL_PRESENT is set in the control word and the DACL is
\* absent, SE_SACL_PRESENT is clear and the SACL is present.
C2_Witness ==
    /\ SdDone
    /\ BitAnd(U16At(FromStart, 2), 4) = 4
    /\ result.val.dacl = <<>>
    /\ BitAnd(U16At(FromStart, 2), 16) = 0
    /\ result.val.sacl # <<>>

AceCalled == op = "Ace" /\ StartIndex < Len(stream)

\* The payload bytes the ACE header announces: size - 4 bytes after the
\* 4-byte header.
DeclaredSize == U16At(FromStart, 2)

Payload == SubSeq(FromStart, 5, DeclaredSize)

C4_SmallSizeIsError ==
    (AceCalled /\ Len(FromStart) >= 4 /\ FromStart[1] \in 0..17
     /\ DeclaredSize < 4)
        => result.tag = "Err"

\* C5: Authority decode of the bytes b0..b5 consumes 6 bytes and yields the
\* big-endian 48-bit value, zero-extended to 64 bits.
C5_AuthorityBigEndian48 ==
    (op = "Authority" /\ Len(FromStart) >= 6) =>
        result = [tag |-> "Ok",
                  val |-> <<0,
                            256 * FromStart[1] + FromStart[2],
                            256 * FromStart[3] + FromStart[4],
                            256 * FromStart[5] + FromStart[6]>>,
                  pos |-> StartIndex + 6]

\* The canonical string of a SID: "S-", the revision, "-", the authority
\* and, for each sub-authority in order, "-" and its decimal value.
RECURSIVE DashSeparated(_)
DashSeparated(list) ==
    IF list = <<>> THEN <<>>
    ELSE <<"-">> \o Decimal(Head(list)) \o DashSeparated(Tail(list))

CanonicalSidString(sid) ==
    <<"S", "-">> \o Decimal(<<sid.revision_number>>) \o <<"-">>
    \o Decimal(sid.authority) \o DashSeparated(sid.sub_authorities)

\* C6: the string form of every decoded SID is its canonical string: one
\* "-" between consecutive components and none at the end.
C6_SidCanonicalString ==
    (op = "Sid" /\ pc = "done") =>
        Sid_to_string(result.val) = CanonicalSidString(result.val)

AceDone == op = "Ace" /\ pc = "done"

\* Bit k (0 or 1) of the object flags word, payload bytes 4..8.
ObjectFlagBit(k) == (Payload[5] \div (2 ^ k)) % 2

\* C7: the object-type GUID is present iff bit 0x1 of the object flags is
\* set and the inherited-type GUID iff bit 0x2 is set, independently; a
\* present GUID is the 16 bytes at its place, an absent one takes no byte;
\* the object type comes first; the SID starts at payload offset
\* 8 + 16 * (number of the two bits set).  The decode succeeds exactly when
\* the GUIDs announced and the SID at that offset can be read.
C7_ObjectGuidsGated ==
    (AceCalled /\ Len(FromStart) >= 4
     /\ FromStart[1] \in {5, 6, 7, 8, 11, 12, 15, 16}
     /\ DeclaredSize >= 12 /\ Len(FromStart) >= DeclaredSize) =>
        LET b0 == ObjectFlagBit(0)
            b1 == ObjectFlagBit(1)
            g1 == Guid_from_reader(Payload, 8)
            g2 == Guid_from_reader(Payload, 8 + 16 * b0)
            sid == Sid_new(Payload, 8 + 16 * (b0 + b1))
        IN IF (b0 = 1 => IsOk(g1)) /\ (b1 = 1 => IsOk(g2)) /\ IsOk(sid)
           THEN /\ pc = "done"
                /\ result.val.data.arm = "Object"
                /\ result.val.data.object.object_type
                       = (IF b0 = 1 THEN <<g1.val>> ELSE <<>>)
                /\ result.val.data.object.inherited_type
                       = (IF b1 = 1 THEN <<g2.val>> ELSE <<>>)
                /\ result.val.data.object.sid = sid.val
           ELSE pc \in {"failed", "panicked"}

\* C7 witness: an object ACE decoded with the object type present and the
\* inherited type absent.
C7_Witness ==
    /\ AceDone
    /\ result.val.data.arm = "Object"
    /\ result.val.data.object.object_type # <<>>
    /\ result.val.data.object.inherited_type = <<>>

\* C8: the arm of a decoded ACE is Basic iff its type is basic, Object iff
\* its type is object, and otherwise Unhandled holding the size - 4 payload
\* bytes as they are in the stream.
C8_ArmByClassification ==
    AceDone =>
        /\ result.val.ace_type = FromStart[1]
        /\ result.val.data.arm = "Basic" <=> AceType_is_basic(FromStart[1])
        /\ result.val.data.arm = "Object" <=> AceType_is_object(FromStart[1])
        /\ result.val.data.arm \in {"Basic", "Object", "Unhandled"}
        /\ result.val.data.arm = "Unhandled" =>
               result.val.data.raw = Payload

\* C8 witness: an ACE decoded as Unhandled with a payload.
C8_Witness ==
    /\ AceDone
    /\ result.val.data.arm = "Unhandled"
    /\ Len(result.val.data.raw) > 0

\* C9: over the 18 variants, is_basic and is_object are never both true and
\* both are false for AccessAllowedCompound (0x04) only: 9 variants are
\* basic, 8 are object, 1 is neither.
C9_ClassificationPartition ==
    /\ (op = "AceType" /\ result.val.ace_type # <<>>) =>
           /\ result.val.ace_type[1] \in 0..17
           /\ ~(result.val.is_basic /\ result.val.is_object)
           /\ (~result.val.is_basic /\ ~result.val.is_object)
                  <=> result.val.ace_type[1] = 4
    /\ Cardinality({b \in 0..255 : AceType_from_u8(b) # <<>>}) = 18
    /\ Cardinality({b \in 0..17 : AceType_is_basic(b)}) = 9
    /\ Cardinality({b \in 0..17 : AceType_is_object(b)}) = 8

\* C9 witness: the compound type classified, neither basic nor object.
C9_Witness ==
    /\ op = "AceType"
    /\ result.val.ace_type = <<4>>
    /\ ~result.val.is_basic /\ ~result.val.is_object

AclDone == op = "Acl" /\ pc = "done"

\* The index at which entry i of the decoded ACL starts: the first after the
\* 8-byte header, each next one after the declared size of the previous.
RECURSIVE EntryStart(_)
EntryStart(i) ==
    IF i = 1 THEN StartIndex + 8
    ELSE EntryStart(i - 1) + result.val.entries[i - 1].size

\* C10: a decoded ACL has as many entries as the count of its header, the
\* entries are the ACEs of the stream in order, and the decode ends after
\* the last of them: the bytes that follow and the declared size play no
\* part.
C10_AclExactlyCountEntries ==
    AclDone =>
        /\ result.val.count = U16At(FromStart, 4)
        /\ Len(result.val.entries) = result.val.count
        /\ \A i \in 1..Len(result.val.entries) :
               /\ IsOk(Ace_from_reader(stream, EntryStart(i)))
               /\ result.val.entries[i]
                      = Ace_from_reader(stream, EntryStart(i)).val
        /\ result.pos = EntryStart(result.val.count + 1)
        /\ Acl_from_reader(SubSeq(stream, 1, result.pos), StartIndex) = result

\* C10 witness: an ACL of one entry decoded from a stream that holds
\* further bytes, its declared size not the size of what was read.
C10_Witness ==
    /\ AclDone
    /\ result.val.count = 1
    /\ result.pos < Len(stream)
    /\ result.val.size # result.pos - StartIndex

\* The ACEs before the i-th of the ACL at index q of the stream decode, and
\* the i-th starts with a byte that is no AceType.
UnknownAceAt(q, i) ==
    /\ IsOk(Acl_loop(stream, q + 8, i - 1, <<>>))
    /\ Acl_loop(stream, q + 8, i - 1, <<>>).pos < Len(stream)
    /\ stream[Acl_loop(stream, q + 8, i - 1, <<>>).pos + 1] \notin 0..17

UnknownAceByte(q, i) == stream[Acl_loop(stream, q + 8, i - 1, <<>>).pos + 1]

\* An ACL stands at index q of the stream, one of its declared ACEs of
\* unknown type.
AclHoldsUnknownAce(q) ==
    /\ q + 8 <= Len(stream)
    /\ \E i \in 1..U16At(stream, q + 4) : UnknownAceAt(q, i)

\* The index the descriptor's offset field at header bytes k..k+4 points to:
\* the start of the descriptor plus the little-endian u32 of the field.
FieldTarget(k) == CursorIndex(u64_add(start, u64_from_u32(U32At(FromStart, k))))

C11_DescriptorFails ==
    /\ SdRunning /\ pc = "failed"
    /\ Len(seeks) = 3
    /\ result.error.kind = "UnknownAceType"

\* The steps SecurityDescriptor::new takes after the header, in order, as
\* the offset fields of the header bytes demand.
ExpectedSteps ==
    <<"owner_sid", "group_sid">>
    \o (IF U32At(FromStart, 16) # <<0, 0>> THEN <<"dacl">> ELSE <<>>)
    \o (IF U32At(FromStart, 12) # <<0, 0>> THEN <<"sacl">> ELSE <<>>)

StepNames == [i \in DOMAIN seeks |-> seeks[i].step]

SdFailed == SdRunning /\ pc \in {"failed", "panicked"}

StepsInOrder ==
    SdRunning =>
        /\ seeks # <<>> => header # <<>>
        /\ header # <<>> =>
               /\ Len(seeks) <= Len(ExpectedSteps)
               /\ StepNames = SubSeq(ExpectedSteps, 1, Len(seeks))
        \* every step before the last one performed has succeeded
        /\ \A i \in DOMAIN seeks :
               (i < Len(seeks) \/ ~SdFailed) => StepValue(seeks[i].step) # <<>>
        \* nothing is decoded without its seek
        /\ \A step \in {"owner_sid", "group_sid", "dacl", "sacl"} :
               StepValue(step) # <<>> => \E i \in DOMAIN seeks : seeks[i].step = step
        \* a failure is the failure of the last step performed
        /\ SdFailed =>
               /\ result.tag \in {"Err", "Panic"}
               /\ IF seeks = <<>>
                  THEN header = <<>> /\ result = [tag |-> "Err", error |-> IoError]
                  ELSE StepValue(seeks[Len(seeks)].step) = <<>>
        /\ pc = "done" =>
               /\ StepNames = ExpectedSteps
               /\ result.tag = "Ok"

\* C12: the descriptor decode takes its steps in the order header, owner
\* SID, group SID, DACL and SACL (each ACL only when its offset is not
\* zero), a step only after the previous one succeeded; the first failure
\* is the result, and after it nothing changes: no seek, no decode.
C12_FixedOrderFailFast ==
    /\ []StepsInOrder
    /\ [][SdFailed => UNCHANGED vars]_vars

\* C12 witness: the group SID failed after the owner SID was decoded.
C12_Witness ==
    /\ SdFailed
    /\ StepNames = <<"owner_sid", "group_sid">>
    /\ owner_sid # <<>> /\ group_sid = <<>>
    /\ U32At(FromStart, 16) # <<0, 0>>

\* C13: the decoded header has the revision of byte 0, the padding of byte
\* 1, the defined control bits of the little-endian word of bytes 2..4, and
\* as owner, group, SACL and DACL offsets the little-endian u32 of bytes
\* 4..8, 8..12, 12..16 and 16..20; the sample header gives revision 1,
\* owner 152, group 164, sacl 0, dacl 20.
C13_HeaderLayout ==
    (SdRunning /\ header # <<>>) =>
        /\ header[1].revision_number = FromStart[1]
        /\ header[1].padding1 = FromStart[2]
        /\ header[1].control_flags
               = BitAnd(FromStart[3] + 256 * FromStart[4], 61247)
        /\ header[1].owner_sid_offset = U32At(FromStart, 4)
        /\ header[1].group_sid_offset = U32At(FromStart, 8)
        /\ header[1].sacl_offset = U32At(FromStart, 12)
        /\ header[1].dacl_offset = U32At(FromStart, 16)
        /\ FromStart = SampleHeader =>
               /\ header[1].revision_number = 1
               /\ header[1].padding1 = 0
               /\ header[1].owner_sid_offset = <<0, 152>>
               /\ header[1].group_sid_offset = <<0, 164>>
               /\ header[1].sacl_offset = <<0, 0>>
               /\ header[1].dacl_offset = <<0, 20>>

\* C13 witness: the sample header was decoded.
C13_Witness == SdRunning /\ header # <<>> /\ FromStart = SampleHeader

\* C14: a decoded SID has the count of its count byte and as many
\* sub-authorities, the i-th the little-endian u32 of the 4 bytes at SID
\* offset 8 + 4*i, in stream order; the bytes 12 00 00 00 00 13 18 00
\* 3F 00 0F 00 with count 3 give 18, 1577728 (0x00181300) and 983103
\* (0x000F003F).
C14_SubAuthorityList ==
    (op = "Sid" /\ pc = "done") =>
        /\ result.val.sub_authority_count = FromStart[2]
        /\ Len(result.val.sub_authorities) = FromStart[2]
        /\ \A i \in 1..Len(result.val.sub_authorities) :
               result.val.sub_authorities[i] = U32At(FromStart, 8 + 4 * (i - 1))
        /\ SubSeq(FromStart, 2, 2) \o SubSeq(FromStart, 9, Len(FromStart))
               = <<3, 18, 0, 0, 0, 0, 19, 24, 0, 63, 0, 15, 0>> =>
               result.val.sub_authorities = <<<<0, 18>>, <<24, 4864>>, <<15, 63>>>>

\* C14 witness: the SID of three sub-authorities was decoded.
C14_Witness ==
    /\ op = "Sid" /\ pc = "done"
    /\ result.val.sub_authority_count = 3
    /\ result.val.sub_authorities = <<<<0, 18>>, <<24, 4864>>, <<15, 63>>>>

\* C15: a decoded ACE of a basic type holds as access_rights the
\* little-endian u32 of payload bytes 0..4 and as SID what the SID decode
\* yields on the payload from offset 4; the sample ACE gives access_rights
\* 983551 (0x000F01FF) and the SID of revision 1, authority 5 and the one
\* sub-authority 18.
C15_BasicAceFields ==
    (AceDone /\ FromStart[1] \in {0, 1, 2, 3, 9, 10, 13, 14, 17}) =>
        /\ result.val.data.arm = "Basic"
        /\ result.val.data.basic.access_rights = U32At(Payload, 0)
        /\ IsOk(Sid_new(Payload, 4))
        /\ result.val.data.basic.sid = Sid_new(Payload, 4).val
        /\ SubSeq(FromStart, 1, 20) = SampleBasicAce =>
               /\ result.val.data.basic.access_rights = <<15, 511>>
               /\ result.val.data.basic.sid
                      = [revision_number |-> 1,
                         sub_authority_count |-> 1,
                         authority |-> <<0, 0, 0, 5>>,
                         sub_authorities |-> <<<<0, 18>>>>]

\* C15 witness: the sample ACE was decoded.
C15_Witness ==
    /\ AceDone
    /\ FromStart = SampleBasicAce
    /\ result.val.data.arm = "Basic"

\* The stream with the flags byte of the ACE at its start set to zero.
WithoutFlags == [stream EXCEPT ![StartIndex + 2] = 0]

\* C16: the flags byte f decides nothing but ace_flags: the decode returns
\* what it returns with the flags byte zero, except that ace_flags holds the
\* bits f AND 0x0F (0x12 gives 0x02).
C16_AceFlagsTruncated ==
    (op = "Ace" /\ Len(FromStart) >= 2) =>
        IF IsOk(Ace_from_reader(WithoutFlags, StartIndex))
        THEN /\ result.tag = "Ok"
             /\ result.pos = Ace_from_reader(WithoutFlags, StartIndex).pos
             /\ result.val.ace_flags = FromStart[2] % 16
             /\ [result.val EXCEPT !.ace_flags = 0]
                    = Ace_from_reader(WithoutFlags, StartIndex).val
        ELSE result = Ace_from_reader(WithoutFlags, StartIndex)

\* C16 witness: an ACE of flags byte 0x12 decoded with ace_flags 0x02.
C16_Witness ==
    /\ AceDone
    /\ FromStart[2] = 18
    /\ result.val.ace_flags = 2

\* The decoder of an entry point, or of a step of the descriptor decode, on
\* stream s from index q.
Decode(name, s, q) ==
    CASE name \in {"Sid", "owner_sid", "group_sid"} -> Sid_new(s, q)
      [] name \in {"Acl", "dacl", "sacl"} -> Acl_from_reader(s, q)
      [] name = "Ace" -> Ace_from_reader(s, q)
      [] name = "Authority" -> Authority_from_reader(s, q)

\* Cutting the stream short changes the outcome of the decode from index q
\* in one way only: a decode that read up to a byte the cut removes ends
\* with the I/O error.  No cut makes it panic, and no cut yields a value
\* other than the one of the whole stream.
ShortReadIsIoError(name, q) ==
    \A n \in q..(Len(stream) - 1) :
        IF IsOk(Decode(name, stream, q))
        THEN Decode(name, SubSeq(stream, 1, n), q)
                 = (IF n >= Decode(name, stream, q).pos
                    THEN Decode(name, stream, q)
                    ELSE [tag |-> "Err", error |-> IoError])
        ELSE Decode(name, SubSeq(stream, 1, n), q)
                 \in {Decode(name, stream, q), [tag |-> "Err", error |-> IoError]}

\* The complete streams the truncated ones are cut from.
CompleteStreams == {ObjectAceBothGuids, AclSampleA, SidAdmins}

IsProperPrefix(t, q) == Len(t) < Len(q) /\ t = SubSeq(q, 1, Len(t))

\* C17: a decode that meets the end of the stream inside a field returns
\* the I/O error: an entry point called on a stream cut short of what it
\* consumes from the complete stream, a descriptor whose stream holds less
\* than the 20 header bytes, a descriptor step whose SID or ACL is cut
\* short.  It does not panic, fills in no default and returns no value.
C17_ShortReadFails ==
    /\ op \in {"Sid", "Acl", "Ace", "Authority"} =>
           /\ result = Decode(op, stream, StartIndex)
           /\ ShortReadIsIoError(op, StartIndex)
           /\ \A q \in CompleteStreams :
                  (/\ IsProperPrefix(stream, q)
                   /\ IsOk(Decode(op, q, 0))
                   /\ Len(stream) < Decode(op, q, 0).pos) =>
                      result = [tag |-> "Err", error |-> IoError]
           /\ IsOk(result) => result.pos <= Len(stream)
    /\ SdRunning =>
           /\ (Len(FromStart) < 20 /\ pc # "header") =>
                  /\ pc = "failed"
                  /\ header = <<>>
                  /\ result = [tag |-> "Err", error |-> IoError]
           /\ \A i \in DOMAIN seeks :
                  /\ ShortReadIsIoError(seeks[i].step, CursorIndex(seeks[i].to))
                  /\ (i = Len(seeks) /\ SdFailed) =>
                         result = Decode(seeks[i].step, stream,
                                         CursorIndex(seeks[i].to))
           /\ pc = "done" =>
                  /\ result.val.owner_sid = owner_sid[1]
                  /\ result.val.group_sid = group_sid[1]
                  /\ result.val.dacl = dacl /\ result.val.sacl = sacl

\* C17 witness: an object ACE cut inside its second GUID was answered by
\* the I/O error.
C17_Witness ==
    /\ op = "Ace"
    /\ IsProperPrefix(stream, ObjectAceBothGuids)
    /\ Len(stream) = 4 + 8 + 16 + 5
    /\ result = [tag |-> "Err", error |-> IoError]

\* The call that has returned is a repetition of the caller's first call.
Repeated(name) ==
    /\ op = name /\ pc \in {"done", "failed", "panicked"}
    /\ previous # <<>> /\ previous[1].name = name

C19_SerializationIgnoresSwitches ==
    Repeated("Serialize") => result = previous[1].outcome

\* C20: the MftReference decoded from eight bytes has as entry the
\* little-endian value of bytes 0..6 (v mod 2^48) and as sequence the
\* little-endian u16 of bytes 6..8 (v div 2^48), and so has the enumerated
\* reference of that u64; the bytes 73 00 00 00 00 00 68 91 give entry 115
\* and sequence 37224.
C20_MftReferenceSplit ==
    (op = "MftReference" /\ Len(FromStart) >= 8) =>
        /\ result
               = [tag |-> "Ok",
                  val |-> [entry |-> <<0,
                                      FromStart[5] + 256 * FromStart[6],
                                      FromStart[3] + 256 * FromStart[4],
                                      FromStart[1] + 256 * FromStart[2]>>,
                           sequence |-> FromStart[7] + 256 * FromStart[8]],
                  pos |-> StartIndex + 8]
        /\ get_enum_ref(LittleEndian_read_u64(SubSeq(FromStart, 1, 8))).entry
               = result.val.entry
        /\ get_enum_ref(LittleEndian_read_u64(SubSeq(FromStart, 1, 8))).sequence
               = result.val.sequence
        /\ FromStart = SampleMftReference =>
               /\ result.val.entry = <<0, 0, 0, 115>>
               /\ result.val.sequence = 37224

\* C20 witness: the sample reference was decoded.
C20_Witness ==
    /\ op = "MftReference" /\ pc = "done"
    /\ FromStart = SampleMftReference
    /\ result.val.sequence = 37224

\* The entry and the sequence handed to CallReference.
GivenEntry == LittleEndian_read_u64(SubSeq(FromStart, 1, 8))

GivenSequence == FromStart[9] + 256 * FromStart[10]

\* C21: for an entry below 2^48 (top limb zero) the reference built from
\* (entry, sequence) is entry + sequence * 2^48, i.e. the sequence as top
\* limb over the three low limbs of the entry; both constructors give it,
\* and splitting it returns the entry and the sequence; 115 and 37224 give
\* 10477624533077459059.
C21_ReferenceRoundTrip ==
    (op = "Reference" /\ GivenEntry[1] = 0) =>
        /\ result.val.built
               = <<GivenSequence, GivenEntry[2], GivenEntry[3], GivenEntry[4]>>
        /\ result.val.in_place = result.val.built
        /\ result.val.split.reference = result.val.built
        /\ result.val.split.entry = GivenEntry
        /\ result.val.split.sequence = GivenSequence
        /\ FromStart = SampleEntryAndSeq =>
               Decimal(result.val.built)
                   = <<"1", "0", "4", "7", "7", "6", "2", "4", "5", "3",
                       "3", "0", "7", "7", "4", "5", "9", "0", "5", "9">>

\* C21 witness: the reference of entry 115 and sequence 37224 was built.
C21_Witness ==
    /\ op = "Reference"
    /\ FromStart = SampleEntryAndSeq
    /\ result.val.split.sequence = 37224

\* The 16-bit value at the start of the stream.
DosValue == FromStart[1] + 256 * FromStart[2]

\* C22: the date handed to the calendar for the 16-bit value v has day
\* v AND 0x1F, month (v >> 5) AND 0x0F and year 1980 + (v >> 9), a day of 0
\* and a month of 0 each replaced by 1, and the date returned is that date;
\* v = 0 gives 1980-01-01 and v = 16492 gives 2012-03-12.
C22_DosDateFields ==
    (op = "DosDate" /\ Len(FromStart) >= 2) =>
        /\ DosDate_fields(DosValue)
               = [year |-> 1980 + DosValue \div 512,
                  month |-> IF (DosValue \div 32) % 16 = 0 THEN 1
                            ELSE (DosValue \div 32) % 16,
                  day |-> IF DosValue % 32 = 0 THEN 1 ELSE DosValue % 32]
        /\ IsOk(result) => result.val = DosDate_fields(DosValue)
        /\ DosValue = 0 =>
               result = [tag |-> "Ok", pos |-> StartIndex + 2,
                         val |-> [year |-> 1980, month |-> 1, day |-> 1]]
        /\ DosValue = 16492 =>
               result = [tag |-> "Ok", pos |-> StartIndex + 2,
                         val |-> [year |-> 2012, month |-> 3, day |-> 12]]

\* C22 witness: the value 16492 was converted.
C22_Witness ==
    /\ op = "DosDate" /\ pc = "done"
    /\ Len(FromStart) = 2 /\ DosValue = 16492

\* The time fields the claim states for the 16-bit value t.
StatedTime(t) ==
    [hour |-> t \div 2048, min |-> (t \div 32) % 64, sec |-> 2 * (t % 32)]

\* C23: the time handed to the calendar for the 16-bit value t has seconds
\* 2 * (t AND 0x1F), minutes (t >> 5) AND 0x3F and hours t >> 11, and
\* to_datetime of a 32-bit value v returns the date of v mod 2^16 with the
\* time of v div 2^16; 43874 gives 21:27:04 and 2875342956 gives
\* 2012-03-12 21:27:04.
C23_DosDateTime ==
    /\ (op = "DosTime" /\ Len(FromStart) >= 2) =>
          /\ DosTime_fields(DosValue) = StatedTime(DosValue)
          /\ IsOk(result) => result.val = StatedTime(DosValue)
          /\ DosValue = 43874 =>
                 result = [tag |-> "Ok", pos |-> StartIndex + 2,
                           val |-> [hour |-> 21, min |-> 27, sec |-> 4]]
    /\ (op = "DosDateTime" /\ Len(FromStart) >= 4) =>
          /\ IsOk(result) =>
                 result.val = [date |-> DosDate_fields(U16At(FromStart, 0)),
                               time |-> StatedTime(U16At(FromStart, 2))]
          /\ SubSeq(FromStart, 1, 4) = <<108, 64, 98, 171>> =>
                 result = [tag |-> "Ok", pos |-> StartIndex + 4,
                           val |-> [date |-> [year |-> 2012, month |-> 3,
                                              day |-> 12],
                                    time |-> [hour |-> 21, min |-> 27,
                                              sec |-> 4]]]

\* C23 witness: the value 2875342956 was converted.
C23_Witness ==
    /\ op = "DosDateTime" /\ pc = "done"
    /\ FromStart = <<108, 64, 98, 171>>

\* C29: to_date and to_time return a value for every 16-bit input: no
\* value makes the conversion fail.
C29_ConversionsNeverFail ==
    (op \in {"DosDate", "DosTime"} /\ Len(FromStart) >= 2) => IsOk(result)

\* The bytes of a Basic payload its decoder reads: the access rights and a
\* Sid of `count` sub-authorities.
BasicConsumed(count) == 4 + 8 + 4 * count

\* C24: a successful decode of an ACE of declared size s >= 4 leaves the
\* stream s bytes after the start of the ACE, however many bytes of the
\* payload the payload decoder read; in a decoded ACL each entry after the
\* first is the ACE found at the start of the previous one plus the size
\* declared there.
C24_AceAdvancesBySize ==
    /\ (AceDone /\ DeclaredSize >= 4) =>
          /\ result.pos = StartIndex + DeclaredSize
          /\ result.val.size = DeclaredSize
    /\ AclDone =>
          \A k \in 1..(Len(result.val.entries) - 1) :
              /\ U16At(stream, EntryStart(k) + 2) >= 4
              /\ result.val.entries[k + 1]
                     = Ace_from_reader(
                           stream,
                           EntryStart(k) + U16At(stream, EntryStart(k) + 2)).val

\* C24 witness: a Basic ACE decoded whose declared size exceeds what its
\* payload decoder read.
C24_Witness ==
    /\ AceDone
    /\ result.val.data.arm = "Basic"
    /\ DeclaredSize
           > 4 + BasicConsumed(result.val.data.basic.sid.sub_authority_count)

\* C25: in a decoded Basic ACE the Sid ends where the payload ends: the
\* declared size is 4 + 4 + 8 + 4 * sub_authority_count.
C25_SidConsumesPayload ==
    (AceDone /\ result.val.data.arm = "Basic") =>
        DeclaredSize
            = 4 + BasicConsumed(result.val.data.basic.sid.sub_authority_count)

\* C26: a SID whose count byte is c, in a stream holding at least 8 + 4 * c
\* bytes from its start, decodes and the decode reads exactly 8 + 4 * c
\* bytes, for c >= 64 as for smaller counts.
C26_SidOfAnyCount ==
    (/\ op = "Sid"
     /\ Len(FromStart) >= 2
     /\ Len(FromStart) >= 8 + 4 * FromStart[2]) =>
        /\ IsOk(result)
        /\ result.pos = StartIndex + 8 + 4 * FromStart[2]
        /\ Len(result.val.sub_authorities) = FromStart[2]

\* The bytes of the GUIDs an Object payload announces in its flags, and the
\* offset of the Sid in a payload.
GuidBytes(payload) == 16 * ((payload[5] % 2) + ((payload[5] \div 2) % 2))

SidOffset(type, payload) ==
    IF AceType_is_basic(type) THEN 4 ELSE 8 + GuidBytes(payload)

\* The payload ends before the last byte its GUIDs and its Sid (of a count
\* whose byte length fits 8 bits) take.
NeedsMore(type, payload) ==
    /\ AceType_is_basic(type) \/ AceType_is_object(type)
    /\ \/ AceType_is_object(type) /\ Len(payload) < 8
       \/ Len(payload) < SidOffset(type, payload) + 8
       \/ /\ payload[SidOffset(type, payload) + 2] < 64
          /\ Len(payload) < SidOffset(type, payload) + 8
                               + 4 * payload[SidOffset(type, payload) + 2]

\* C27: the decode of an ACE whose declared size s >= 4 the stream holds
\* depends on the s bytes of the ACE only, and when the GUIDs or the Sid of
\* the payload take more than the s - 4 payload bytes it fails with the I/O
\* error, whatever follows the ACE in the stream.
C27_PayloadStaysInsideAce ==
    (/\ AceCalled
     /\ Len(FromStart) >= 4
     /\ DeclaredSize >= 4
     /\ Len(FromStart) >= DeclaredSize
     /\ FromStart[1] \in AceType) =>
        /\ result = Ace_from_reader(SubSeq(stream, 1, StartIndex + DeclaredSize),
                                    StartIndex)
        /\ NeedsMore(FromStart[1], Payload) =>
               result = [tag |-> "Err", error |-> IoError]

\* C27 witness: an object ACE whose declared size ends inside the second
\* GUID failed, the bytes of the GUID and of the Sid following in the
\* stream.
C27_Witness ==
    /\ AceCalled /\ pc = "failed"
    /\ FromStart \in ShortPayloadAces
    /\ DeclaredSize = 44
    /\ IsOk(AceObject_from_reader(SubSeq(FromStart, 5, Len(FromStart)), 0))

\* Bit k of the word w.
Bit(w, k) == (w \div (2 ^ k)) % 2

C30_AuthorityBelow2To48 ==
    /\ (op = "Authority" /\ Len(FromStart) >= 6) =>
          /\ IsOk(result)
          /\ Len(result.val) = 4
          /\ result.val[1] = 0
          /\ Authority_new(SubSeq(FromStart, 1, 6)).val[1] = 0
    /\ (op = "Sid" /\ IsOk(result)) =>
          /\ Len(result.val.authority) = 4
          /\ result.val.authority[1] = 0

\* C30 witness: an authority decoded from six bytes whose first two are not
\* zero.
C30_Witness ==
    /\ op = "Authority" /\ pc = "done"
    /\ SubSeq(FromStart, 1, 2) = <<1, 2>>

====
